---- MODULE Spec2Model ----
(***************************************************************************)
(* Model of src/compression/blosc.rs: the Blosc codec of the zarr crate.   *)
(*                                                                         *)
(*   - BloscCompression, the codec parameter set (serde-deserialized),     *)
(*   - BloscCompression::decompress / decompress_bytes<T>, the size-       *)
(*     directed decode through blosc_cbuffer_sizes and                     *)
(*     blosc_decompress_ctx,                                               *)
(*   - Compression::decoder (read_to_end, decompress, unwrap, Cursor),     *)
(*   - Compression::encoder (Box::new(w)).                                 *)
(*                                                                         *)
(* Bytes are naturals 0..255, byte strings are sequences.                  *)
(***************************************************************************)
EXTENDS Integers, Sequences, FiniteSets

VARIABLES
    params,     \* the BloscCompression value built, or NoParams
    cfgResult,  \* outcome of building it: "none", "Ok", "Err"
    pc,         \* position of the current call
    mode,       \* "none", "decoder", "direct" (decompress<T>), "encoder"
    source,     \* every byte the reader r holds
    bytes,      \* decoder's Vec<u8> / decompress_bytes' src slice
    readFailed, \* r.read_to_end returned Err (the result is dropped)
    typesize,   \* mem::size_of::<T>()
    nbytes,     \* header field read by blosc_cbuffer_sizes
    cbytes,     \* header field read by blosc_cbuffer_sizes
    destCap,    \* capacity of dest, in elements
    destsize,   \* destsize argument handed to blosc_decompress_ctx
    rsize,      \* value blosc_decompress_ctx returned
    dest,       \* the bytes the engine wrote through dest.as_mut_ptr()
    result,     \* "none", "Ok", "Err": the Result of decompress
    ret,        \* the Vec<T> returned in Ok: [len, data], or NoVec
    cursor,     \* the Cursor<Vec<u8>> decoder returns: [buf, pos], or NoVec
    consumed,   \* bytes the caller has read from the returned stream
    sawEof,     \* a read of the returned stream returned 0
    written,    \* bytes the encoder's writer reported as accepted
    sink,       \* bytes the destination w received
    encErrs,    \* failures the encoder's writer returned
    sinkErrs,   \* failures the destination w returned
    nWrites     \* write calls made on the encoder's writer

cfgVars == <<params, cfgResult>>
decVars == <<source, bytes, readFailed, typesize, nbytes, cbytes,
             destCap, destsize, rsize, dest, result, ret, cursor, consumed,
             sawEof>>
encVars == <<written, sink, encErrs, sinkErrs, nWrites>>
vars == <<params, cfgResult, pc, mode, source, bytes, readFailed, typesize,
          nbytes, cbytes, destCap, destsize, rsize, dest, result,
          ret, cursor, consumed, sawEof, written, sink, encErrs, sinkErrs,
          nWrites>>

----------------------------------------------------------------------------
(* Bounds of the model *)

\* largest uncompressed length a generated header declares
MaxNBytes == 4
\* longest stored payload of a generated frame
MaxPayload == 4
\* a generated header declares up to this many bytes more than supplied
MaxExcess == 1
\* largest value a header field read past the end of the slice can take
MaxGarbage == 2
\* largest element size decompress<T> is instantiated with
MaxTypeSize == 3
\* most bytes one read of a stream returns
MaxChunk == 8
\* most write calls on the encoder's writer
MaxWrites == 3
\* longest buffer of one write call
MaxWriteLen == 2
\* largest blocksize a configuration gives
MaxBlocksize == 2

----------------------------------------------------------------------------
(* Helpers on byte strings *)

Min(a, b) == IF a <= b THEN a ELSE b

Take(s, n) == SubSeq(s, 1, Min(n, Len(s)))

Drop(s, n) == SubSeq(s, Min(n, Len(s)) + 1, Len(s))

IsPrefix(s, t) == Len(s) <= Len(t) /\ s = SubSeq(t, 1, Len(s))

----------------------------------------------------------------------------
(* The codec parameter set: struct BloscCompression and its serde derive *)

COMPRESSOR_BLOSCLZ == "blosclz"
COMPRESSOR_LZ4 == "lz4"
COMPRESSOR_ZLIB == "zlib"
COMPRESSOR_ZSTD == "zstd"

Recognized ==
    {COMPRESSOR_BLOSCLZ, COMPRESSOR_LZ4, COMPRESSOR_ZLIB, COMPRESSOR_ZSTD}

\* a key of the configuration record is a set: empty when the record does
\* not hold the key, else the one value it gives
Absent == {}

Given(v) == {v}

NoParams == [none |-> TRUE]

default_blosc_blocksize == 0
default_blosc_clevel == 5
default_blosc_shufflemode == 1

\* impl Default for BloscCompression
DefaultParams ==
    [blocksize |-> default_blosc_blocksize,
     clevel    |-> 5,
     cname     |-> COMPRESSOR_BLOSCLZ,
     shuffle   |-> default_blosc_shufflemode]

\* #[serde(default = ...)]: an omitted key takes the default function's value
OrDefault(v, d) == IF v = Absent THEN d ELSE CHOOSE x \in v : TRUE

\* the values a configuration record gives for each key
BlocksizeInputs == {Absent} \cup {Given(b) : b \in 0..MaxBlocksize}
ClevelInputs == {Absent, Given(0), Given(5), Given(9)}
ShuffleInputs == {Absent, Given(0), Given(1), Given(2)}
CnameInputs == {Absent, Given("unknown")} \cup {Given(n) : n \in Recognized}

ConfigInputs ==
    [blocksize : BlocksizeInputs, clevel : ClevelInputs,
     cname : CnameInputs, shuffle : ShuffleInputs]

\* the derived Deserialize: cname has no serde default and is required,
\* and it is a String, so every string is taken
DeserializeOk(c) == c.cname # Absent

\* the derived Deserialize builds the struct field by field
DeserializeValue(c) ==
    [blocksize |-> OrDefault(c.blocksize, default_blosc_blocksize),
     clevel    |-> OrDefault(c.clevel, default_blosc_clevel),
     cname     |-> CHOOSE n \in c.cname : TRUE,
     shuffle   |-> OrDefault(c.shuffle, default_blosc_shufflemode)]

\* BloscCompression deserialized from a configuration record
Deserialize(c) ==
    /\ cfgResult = "none"
    /\ IF DeserializeOk(c)
       THEN /\ params' = DeserializeValue(c)
            /\ cfgResult' = "Ok"
       ELSE /\ params' = NoParams
            /\ cfgResult' = "Err"
    /\ UNCHANGED <<pc, mode>>
    /\ UNCHANGED decVars
    /\ UNCHANGED encVars

\* BloscCompression::default()
Default ==
    /\ cfgResult = "none"
    /\ params' = DefaultParams
    /\ cfgResult' = "Ok"
    /\ UNCHANGED <<pc, mode>>
    /\ UNCHANGED decVars
    /\ UNCHANGED encVars

----------------------------------------------------------------------------
(* Compressed frames: the 16-byte header and the inputs of the model *)

\* the 28-byte chunk of tests::test_read_doc_spec_chunk
TEST_CHUNK_I16_BLOSC ==
    <<2, 1, 51, 2,
      12, 0, 0, 0,
      12, 0, 0, 0,
      28, 0, 0, 0,
      0, 1, 0, 2,
      0, 3, 0, 4,
      0, 5, 0, 6>>

\* bytes of header before the payload: prologue and three 32-bit fields
BLOSC_MIN_HEADER_LENGTH == 16

\* a 32-bit field as the header stores it, least significant byte first
LE32(n) ==
    <<n % 256, (n \div 256) % 256, (n \div 65536) % 256,
      (n \div 16777216) % 256>>

\* the 32-bit field stored at byte offset off of s
ReadLE32(s, off) ==
    s[off + 1] + 256 * s[off + 2] + 65536 * s[off + 3]
        + 16777216 * s[off + 4]

\* a payload of n bytes: big-endian 16-bit values 1, 2, 3, ... as in the
\* test chunk
Payload(n) == [i \in 1..n |-> IF i % 2 = 1 THEN 0 ELSE i \div 2]

\* a header with the prologue of the test chunk
Header(nb, bs, cb) == <<2, 1, 51, 2>> \o LE32(nb) \o LE32(bs) \o LE32(cb)

\* a frame storing pl payload bytes whose header declares nb uncompressed
\* bytes and e more compressed bytes than the frame holds
StoredFrame(nb, pl, e) ==
    Header(nb, nb, BLOSC_MIN_HEADER_LENGTH + pl + e) \o Payload(pl)

FullFrames ==
    {TEST_CHUNK_I16_BLOSC} \cup
    {StoredFrame(nb, pl, e) :
        nb \in 0..MaxNBytes, pl \in 0..MaxPayload, e \in 0..MaxExcess}

\* lengths the frames are cut to, all shorter than the header
TruncLens == {0, 6, 10, 15}

\* the byte strings handed to decoder and to decompress<T>
Inputs == FullFrames \cup {Take(f, k) : f \in FullFrames, k \in TruncLens}

NoVec == [none |-> TRUE]

----------------------------------------------------------------------------
(* The native engine, as this file calls it *)

\* blosc_cbuffer_sizes reads a field of the header through src.as_ptr(): it
\* is not given the length of the slice.  A field that ends past the slice
\* is a read out of bounds, with any value.
FieldAt(src, off) ==
    IF Len(src) >= off + 4 THEN {ReadLE32(src, off)} ELSE 0..MaxGarbage

\* blosc_decompress_ctx returns the number of bytes it wrote, at most
\* destsize, or a value <= 0 for a failure
EngineResults(ds) == {-1, 0} \cup 1..ds

\* a failed call leaves a prefix of its output written: none, half or all
PartialWrites(ds) == {0, ds \div 2, ds}

\* a byte the engine reads past the end of src has any value
GarbageBytes == {0, 255}

\* the first n bytes the engine writes for src: the stored payload, then
\* what lies behind the slice
EngineOutput(src, n, g) ==
    [i \in 1..n |->
        IF BLOSC_MIN_HEADER_LENGTH + i <= Len(src)
        THEN src[BLOSC_MIN_HEADER_LENGTH + i] ELSE g]

----------------------------------------------------------------------------
(* BloscCompression::decompress_bytes<T> *)

\* let dest_size = nbytes / typesize;
DestSize(nb, ts) == nb \div ts

\* a test that takes a result of 0 for a success
EngineSucceededOrZero(r) == r >= 0

\* if rsize > 0
EngineSucceeded(r) == r > 0

\* a length taken from the header's count instead of the engine's result
SetLenFromHeader(r, ts) == nbytes \div ts

\* dest.set_len(rsize as usize / typesize);
SetLen(r, ts) == r \div ts

\* decompress::<T>(src), called on its own
DecompressCall(src, ts) ==
    /\ pc = "idle"
    /\ pc' = "entered"
    /\ mode' = "direct"
    /\ source' = src
    /\ bytes' = src
    /\ typesize' = ts
    /\ UNCHANGED <<readFailed, nbytes, cbytes, destCap, destsize,
                   rsize, dest, result, ret, cursor, consumed, sawEof>>
    /\ UNCHANGED cfgVars
    /\ UNCHANGED encVars

\* blosc_cbuffer_sizes(src.as_ptr(), ..) and Vec::with_capacity(dest_size).
\* The third field, _blocksize, is written and never read: it is no state.
CbufferSizes ==
    /\ pc = "entered"
    /\ \E nb \in FieldAt(bytes, 4), cb \in FieldAt(bytes, 12) :
            /\ nbytes' = nb
            /\ cbytes' = cb
            /\ destCap' = DestSize(nb, typesize)
    /\ pc' = "allocated"
    /\ UNCHANGED <<mode, source, bytes, readFailed, typesize, destsize, rsize,
                   dest, result, ret, cursor, consumed, sawEof>>
    /\ UNCHANGED cfgVars
    /\ UNCHANGED encVars

\* blosc_decompress_ctx(src.as_ptr(), dest.as_mut_ptr(), nbytes, 1)
DecompressCtx ==
    /\ pc = "allocated"
    /\ destsize' = nbytes
    /\ \E r \in EngineResults(nbytes), g \in GarbageBytes,
          k \in PartialWrites(nbytes) \cup 1..nbytes :
            /\ EngineSucceeded(r) => k = r
            /\ rsize' = r
            /\ dest' = EngineOutput(bytes, k, g)
    /\ pc' = "returned"
    /\ UNCHANGED <<mode, source, bytes, readFailed, typesize, nbytes, cbytes,
                   destCap, result, ret, cursor, consumed, sawEof>>
    /\ UNCHANGED cfgVars
    /\ UNCHANGED encVars

\* if rsize > 0 { set_len; shrink_to_fit; Ok(dest) } else { Err(BloscError) }
Finish ==
    /\ pc = "returned"
    /\ IF EngineSucceeded(rsize)
       THEN /\ result' = "Ok"
            /\ ret' = [len  |-> SetLen(rsize, typesize),
                       data |-> Take(dest, SetLen(rsize, typesize) * typesize)]
       ELSE /\ result' = "Err"
            /\ ret' = NoVec
    /\ pc' = IF mode = "direct" THEN "done" ELSE "unwrap"
    /\ UNCHANGED <<mode, source, bytes, readFailed, typesize, nbytes, cbytes,
                   destCap, destsize, rsize, dest, cursor, consumed,
                   sawEof>>
    /\ UNCHANGED cfgVars
    /\ UNCHANGED encVars

----------------------------------------------------------------------------
(* Compression::decoder *)

\* the sizes of the reads of r: half a chunk or a whole one
ReadSizes == {MaxChunk \div 2, MaxChunk}

\* size_of::<T>() in decoder: Cursor<Vec<T>> is Read only for T = u8
DecoderTypeSize == 1

\* a cursor left at the end of its buffer
CursorAtEnd(v) == [buf |-> v, pos |-> Len(v)]

\* Cursor::new(decompressed)
CursorNew(v) == [buf |-> v, pos |-> 0]

\* decoder(r): let mut bytes = Vec::new(); r.read_to_end(&mut bytes) begins
DecoderCall(src) ==
    /\ pc = "idle"
    /\ pc' = "reading"
    /\ mode' = "decoder"
    /\ source' = src
    /\ bytes' = <<>>
    /\ typesize' = DecoderTypeSize
    /\ UNCHANGED <<readFailed, nbytes, cbytes, destCap, destsize,
                   rsize, dest, result, ret, cursor, consumed, sawEof>>
    /\ UNCHANGED cfgVars
    /\ UNCHANGED encVars

\* read_to_end: one read of r returns n bytes, appended to bytes
ReadChunk(n) ==
    /\ pc = "reading"
    /\ Len(bytes) < Len(source)
    /\ bytes' = bytes \o Take(Drop(source, Len(bytes)), n)
    /\ UNCHANGED <<pc, mode, source, readFailed, typesize, nbytes, cbytes,
                   destCap, destsize, rsize, dest, result, ret,
                   cursor, consumed, sawEof>>
    /\ UNCHANGED cfgVars
    /\ UNCHANGED encVars

\* read_to_end: a read of r returns 0, read_to_end returns Ok
ReadEof ==
    /\ pc = "reading"
    /\ Len(bytes) = Len(source)
    /\ pc' = "entered"
    /\ UNCHANGED <<mode, source, bytes, readFailed, typesize, nbytes, cbytes,
                   destCap, destsize, rsize, dest, result, ret,
                   cursor, consumed, sawEof>>
    /\ UNCHANGED cfgVars
    /\ UNCHANGED encVars

\* read_to_end: a read of r fails, read_to_end returns Err with the bytes
\* read so far left in bytes; decoder drops the Result and goes on
ReadError ==
    /\ pc = "reading"
    /\ Len(bytes) < Len(source)
    /\ readFailed' = TRUE
    /\ pc' = "entered"
    /\ UNCHANGED <<mode, source, bytes, typesize, nbytes, cbytes,
                   destCap, destsize, rsize, dest, result, ret, cursor,
                   consumed, sawEof>>
    /\ UNCHANGED cfgVars
    /\ UNCHANGED encVars

\* BloscCompression::decompress(&bytes).unwrap(), then
\* Box::new(Cursor::new(decompressed))
Unwrap ==
    /\ pc = "unwrap"
    /\ IF result = "Ok"
       THEN /\ cursor' = CursorNew(ret.data)
            /\ pc' = "streaming"
       ELSE /\ cursor' = cursor
            /\ pc' = "panicked"
    /\ UNCHANGED <<mode, source, bytes, readFailed, typesize, nbytes, cbytes,
                   destCap, destsize, rsize, dest, result, ret,
                   consumed, sawEof>>
    /\ UNCHANGED cfgVars
    /\ UNCHANGED encVars

\* the caller reads up to n bytes from the returned Box<dyn Read>
StreamRead(n) ==
    /\ pc = "streaming"
    /\ ~sawEof
    /\ LET got == Take(Drop(cursor.buf, cursor.pos), n)
       IN  /\ consumed' = consumed \o got
           /\ cursor' = [cursor EXCEPT !.pos = @ + Len(got)]
           /\ sawEof' = (Len(got) = 0)
    /\ UNCHANGED <<pc, mode, source, bytes, readFailed, typesize, nbytes,
                   cbytes, destCap, destsize, rsize, dest, result,
                   ret>>
    /\ UNCHANGED cfgVars
    /\ UNCHANGED encVars

----------------------------------------------------------------------------
(* Compression::encoder *)

\* a writer that keeps the bytes for a later compression and reports them
\* all as written
EncoderWriteBuffered(buf, k) == [toSink |-> <<>>, reported |-> Len(buf)]

\* Box::new(w): a write of buf on the returned writer is w.write(buf); w
\* takes the first k bytes and the writer returns w's Ok(k)
EncoderWrite(buf, k) == [toSink |-> Take(buf, k), reported |-> k]

\* the buffers the caller writes
WriteBufs ==
    {SubSeq(Payload(MaxWriteLen + 1), i, j) :
        i \in 1..2, j \in 1..(MaxWriteLen + 1)} \ {<<>>}

\* encoder(w)
EncoderCall ==
    /\ pc = "idle"
    /\ pc' = "encoding"
    /\ mode' = "encoder"
    /\ UNCHANGED cfgVars
    /\ UNCHANGED decVars
    /\ UNCHANGED encVars

\* write(buf) on the returned writer, which w takes in part or in whole
Write(buf, k) ==
    /\ pc = "encoding"
    /\ nWrites < MaxWrites
    /\ k <= Len(buf)
    /\ nWrites' = nWrites + 1
    /\ sink' = sink \o EncoderWrite(buf, k).toSink
    /\ written' = written \o Take(buf, EncoderWrite(buf, k).reported)
    /\ UNCHANGED <<pc, mode, encErrs, sinkErrs>>
    /\ UNCHANGED cfgVars
    /\ UNCHANGED decVars

\* write(buf) on the returned writer: w fails and the writer returns its Err
WriteFail(buf) ==
    /\ pc = "encoding"
    /\ nWrites < MaxWrites
    /\ nWrites' = nWrites + 1
    /\ sinkErrs' = sinkErrs + 1
    /\ encErrs' = encErrs + 1
    /\ UNCHANGED <<pc, mode, written, sink>>
    /\ UNCHANGED cfgVars
    /\ UNCHANGED decVars

----------------------------------------------------------------------------
(* Specifications *)

InitCall ==
    /\ pc = "idle"
    /\ mode = "none"
    /\ source = <<>>
    /\ bytes = <<>>
    /\ readFailed = FALSE
    /\ typesize = 1
    /\ nbytes = 0
    /\ cbytes = 0
    /\ destCap = 0
    /\ destsize = 0
    /\ rsize = 0
    /\ dest = <<>>
    /\ result = "none"
    /\ ret = NoVec
    /\ cursor = NoVec
    /\ consumed = <<>>
    /\ sawEof = FALSE
    /\ written = <<>>
    /\ sink = <<>>
    /\ encErrs = 0
    /\ sinkErrs = 0
    /\ nWrites = 0

\* a codec value exists (BloscCompression::default()); no call is running
Init ==
    /\ params = DefaultParams
    /\ cfgResult = "Ok"
    /\ InitCall

Next ==
    \/ \E src \in Inputs, ts \in 1..MaxTypeSize : DecompressCall(src, ts)
    \/ \E src \in Inputs : DecoderCall(src)
    \/ \E n \in ReadSizes : ReadChunk(n)
    \/ ReadEof
    \/ ReadError
    \/ CbufferSizes
    \/ DecompressCtx
    \/ Finish
    \/ Unwrap
    \/ \E n \in 1..MaxChunk : StreamRead(n)
    \/ EncoderCall
    \/ \E buf \in WriteBufs, k \in 0..(MaxWriteLen + 1) : Write(buf, k)
    \/ \E buf \in WriteBufs : WriteFail(buf)

Spec == Init /\ [][Next]_vars

\* no codec value exists yet
InitParams ==
    /\ params = NoParams
    /\ cfgResult = "none"
    /\ InitCall

NextParams ==
    \/ \E c \in ConfigInputs : Deserialize(c)
    \/ Default

SpecParams == InitParams /\ [][NextParams]_vars

----------------------------------------------------------------------------
(* Positions of a decode call *)

\* blosc_cbuffer_sizes has been called
Inspected ==
    pc \in {"allocated", "returned", "done", "unwrap", "streaming", "panicked"}

\* blosc_decompress_ctx has been called, and has returned
EngineInvoked == pc \in {"returned", "done", "unwrap", "streaming", "panicked"}

\* decompress has returned its Result
Decompressed == pc \in {"done", "unwrap", "streaming", "panicked"}

\* a stored frame whose header is true of it: it declares its own length as
\* the compressed length and the length of its payload as the uncompressed
ValidFrame(b) ==
    /\ Len(b) >= BLOSC_MIN_HEADER_LENGTH
    /\ ReadLE32(b, 12) = Len(b)
    /\ ReadLE32(b, 4) = Len(b) - BLOSC_MIN_HEADER_LENGTH

\* the bytes a valid stored frame decompresses to
Original(b) == SubSeq(b, BLOSC_MIN_HEADER_LENGTH + 1, Len(b))

\* a byte string read as big-endian 16-bit elements
ElementsBE16(s) ==
    [i \in 1..(Len(s) \div 2) |-> 256 * s[2 * i - 1] + s[2 * i]]

----------------------------------------------------------------------------
(* The claims *)

\* C1: when blosc_decompress_ctx is invoked, the byte capacity of dest
\* (allocated elements * typesize) is at least the destsize handed to it,
\* for every input and every typesize >= 1.
C1_CapacityCoversDestsize ==
    EngineInvoked => destCap * typesize >= destsize

\* C2: an input shorter than the 16-byte header is never inspected by
\* blosc_cbuffer_sizes, and the decode of it ends in an error.
C2_TruncatedInputRejected ==
    (mode \in {"decoder", "direct"} /\ pc # "reading"
        /\ Len(bytes) < BLOSC_MIN_HEADER_LENGTH)
    => /\ ~Inspected
       /\ result # "Ok"

\* C3: when the engine returns a non-positive result inside decoder, the
\* decoder call does not panic: the failure is a value the caller gets.
C3_DecodeFailureDoesNotPanic ==
    (mode = "decoder" /\ EngineInvoked /\ rsize <= 0) => pc # "panicked"

\* C4: when decompress_bytes succeeds, the returned buffer holds exactly
\* floor(rsize / typesize) elements, which is no more than the engine wrote
\* and no more than the allocated capacity.
C4_LengthFromEngineResult ==
    (Decompressed /\ result = "Ok")
    => /\ ret.len = rsize \div typesize
       /\ Len(ret.data) = ret.len * typesize
       /\ ret.len * typesize <= Len(dest)
       /\ ret.len <= destCap

\* C4 witness: a success whose length differs from the header's count
C4_Witness ==
    /\ Decompressed
    /\ result = "Ok"
    /\ typesize > 1
    /\ ret.len > 0
    /\ ret.len # nbytes \div typesize

\* C5: decompress returns Err exactly when the engine's result is <= 0, and
\* then hands out no buffer; a buffer is returned only for a result > 0.
C5_ErrIffNonPositive ==
    Decompressed
    => /\ result \in {"Ok", "Err"}
       /\ (result = "Err") <=> (rsize <= 0)
       /\ (result = "Err") => (ret = NoVec)
       /\ (ret # NoVec) => (rsize > 0)

\* C5 witness: a failed call that had written part of dest
C5_Witness ==
    /\ Decompressed
    /\ rsize = 0
    /\ dest # <<>>
    /\ result = "Err"

\* C6: decoder inspects the header and calls the engine only once every byte
\* of the source is buffered, the whole source is the one frame, and no
\* output byte is read before the engine has returned.
C6_WholeSourceBuffered ==
    /\ (mode = "decoder" /\ pc # "reading") => bytes = source
    /\ (mode = "decoder" /\ Inspected) => pc # "reading"
    /\ (consumed # <<>>) => EngineInvoked

\* C7: a parameter set whose cname is not a recognized identifier is never
\* built: the construction fails.
C7_UnknownNameRejected ==
    (cfgResult = "Ok") => (params.cname \in Recognized)

\* C8: for a valid frame of which the engine writes all nbytes, the stream
\* decoder returns yields exactly those bytes in order and then the end of
\* input; the test chunk read as 16-bit elements is 1..6.
C8_StreamYieldsDecompressedBytes ==
    /\ (mode = "decoder" /\ pc = "streaming" /\ ValidFrame(bytes)
            /\ rsize = nbytes)
       => /\ IsPrefix(consumed, Original(bytes))
          /\ sawEof => consumed = Original(bytes)
          /\ sawEof => Len(consumed) = nbytes
    /\ (mode = "decoder" /\ sawEof /\ bytes = TEST_CHUNK_I16_BLOSC
            /\ rsize = nbytes)
       => ElementsBE16(consumed) = <<1, 2, 3, 4, 5, 6>>

\* C8 witness: the test chunk, decoded and read to the end
C8_Witness ==
    /\ mode = "decoder"
    /\ sawEof
    /\ bytes = TEST_CHUNK_I16_BLOSC
    /\ rsize = nbytes
    /\ Len(consumed) = 12

\* C9: the destination receives exactly the bytes the writes on the
\* encoder's writer were reported to take, in order, and the writer fails
\* only when the destination fails.
C9_EncoderPassesThrough ==
    (mode = "encoder")
    => /\ sink = written
       /\ encErrs = sinkErrs

\* C9 witness: writes taken in part, and a failed one
C9_Witness ==
    /\ mode = "encoder"
    /\ nWrites = MaxWrites
    /\ Len(sink) >= 2
    /\ sinkErrs = 1

\* C10: the engine is invoked only on frames whose declared compressed
\* length is at most the number of bytes supplied.
C10_CompressedLengthChecked ==
    EngineInvoked => cbytes <= Len(bytes)

====
